---- MODULE Spec2Model ----
(***************************************************************************)
(* Model of borg-id-verify.py (BorgIdVerify): for every repository folder  *)
(* the program reads the stored ID file ".<folder>.id", asks "borg list"   *)
(* for the live IDs, compares both and rewrites the ID file (keeping the   *)
(* previous one as ".<folder>.id.old") when the listing has grown, when    *)
(* --force is given, or when --init creates a missing file.                *)
(*                                                                         *)
(* One behaviour of the model is a sequence of invocations of the program  *)
(* (runs) on the same base path.  The file system persists from one run to *)
(* the next; the object's fields, the flags and the exit status are per    *)
(* run.  Spec follows any number of runs over a base path with one         *)
(* repository folder; SpecRepos follows one run over two folders.          *)
(***************************************************************************)
EXTENDS Integers, Sequences, FiniteSets

\* ---------------------------------------------------------------- bounds
\* Longest ID file and longest "borg list" output, in lines.
MaxLen == 2

\* The identifier lines (opaque strings).
Lines == {"a", "b"}
\* The repository folders below the base path.
Repos == {"r1", "r2"}

RECURSIVE SeqsOfLen(_)
SeqsOfLen(n) ==
  IF n = 0 THEN {<<>>}
  ELSE {Append(s, x) : s \in SeqsOfLen(n - 1), x \in Lines}

\* Every sequence of at most MaxLen lines.
Listings == UNION {SeqsOfLen(n) : n \in 0..MaxLen}

\* A path of the file system: either no regular file, or a file of lines.
NoFile == [exists |-> FALSE, lines |-> <<>>]
File(s) == [exists |-> TRUE, lines |-> s]
Files == {NoFile} \cup {File(s) : s \in Listings}

\* What one invocation of "borg list" gives back: its return code and the
\* lines of its standard output.
BorgOk(s) == [called |-> TRUE, rc |-> 0, out |-> s]
BorgFailed == [called |-> TRUE, rc |-> 2, out |-> <<>>]
NotCalled == [called |-> FALSE, rc |-> 0, out |-> <<>>]
BorgResults == {BorgOk(s) : s \in Listings} \cup {BorgFailed}

IsPrefix(s, t) == Len(s) <= Len(t) /\ SubSeq(t, 1, Len(s)) = s
IsStrictPrefix(s, t) == Len(s) < Len(t) /\ IsPrefix(s, t)

VARIABLES
  idFile,        \* idFile[r]: the file ".<r>.id" of the base path
  oldFile,       \* oldFile[r]: the file ".<r>.id.old"
  force_update,  \* self._force_update
  init,          \* self._init
  dryrun,        \* self._dryrun
  file_id_info,  \* self._file_id_info
  borg_id_info,  \* self._borg_id_info
  folders,       \* check_repos: the list the for loop walks
  idx,           \* check_repos: number of folders the loop has finished
  ret_code,      \* check_repos: ret_code
  pc,            \* position of the process
  exit_code,     \* exit status of the process, -1 while it runs
  borg,          \* borg[r]: what "borg list" returned for r in this run
  outcome,       \* outcome[r]: the branch check_repos took for r in this run
  fault,         \* an I/O operation on the ID files failed in this run
  touched,       \* the folders whose ID or .old file this run has changed
  dirs,          \* the folders below the base path
  idFile0,       \* the ID files as they were when this run started
  oldFile0,      \* the .old files as they were when this run started
  prev           \* the flags, listings and outcomes of the previous run

vars == <<idFile, oldFile, force_update, init, dryrun, file_id_info,
          borg_id_info, folders, idx, ret_code, pc, exit_code, borg,
          outcome, fault, touched, dirs, idFile0, oldFile0, prev>>

\* ------------------------------------------------------ pure functions
\* get_borg_id_info, line 137: the list comprehension that drops borg's
\* "Removed stale ..." notice.  result.stdout is a bytes object (the pipe is
\* opened without text mode), so every element of splitlines() is bytes and
\* its startswith is called with a str: Python raises TypeError on the first
\* line.  With no line at all the condition is never evaluated.
FilterNotice(out) ==
  IF out = <<>> THEN [raised |-> FALSE, lines |-> <<>>]
  ELSE [raised |-> TRUE, lines |-> <<>>]

\* get_borg_id_info: ret is "False" (borg's return code is not 0), "True",
\* or "TypeError" (the exception of line 137 leaves the method); info is the
\* value of self._borg_id_info afterwards (reset to [] on line 119).
get_borg_id_info(res) ==
  IF res.rc # 0 THEN [ret |-> "False", info |-> <<>>]
  ELSE IF FilterNotice(res.out).raised THEN [ret |-> "TypeError", info |-> <<>>]
  ELSE [ret |-> "True", info |-> FilterNotice(res.out).lines]

\* The loop of compare_ids from position i (1-based) on; errs collects the
\* file line numbers (idx + 1) of the errors it prints.
RECURSIVE CompareFrom(_, _, _, _, _)
CompareFrom(f, b, i, ret, errs) ==
  IF i > Len(f) THEN [ret |-> ret, errs |-> errs]
  ELSE IF i > Len(b) THEN [ret |-> FALSE, errs |-> Append(errs, i)]
  ELSE IF b[i] # f[i] THEN CompareFrom(f, b, i + 1, FALSE, Append(errs, i))
  ELSE CompareFrom(f, b, i + 1, ret, errs)

\* compare_ids with a break after a line that differs as well.
RECURSIVE CompareFrom_BreakOnMismatch(_, _, _, _, _)
CompareFrom_BreakOnMismatch(f, b, i, ret, errs) ==
  IF i > Len(f) THEN [ret |-> ret, errs |-> errs]
  ELSE IF i > Len(b) THEN [ret |-> FALSE, errs |-> Append(errs, i)]
  ELSE IF b[i] # f[i] THEN [ret |-> FALSE, errs |-> Append(errs, i)]
  ELSE CompareFrom_BreakOnMismatch(f, b, i + 1, ret, errs)

compare_ids_BreakOnMismatch(f, b) ==
  CompareFrom_BreakOnMismatch(f, b, 1, TRUE, <<>>)

\* compare_ids on self._file_id_info = f and self._borg_id_info = b.
compare_ids(f, b) == CompareFrom(f, b, 1, TRUE, <<>>)

\* Branch with the test of --init forgotten: a missing ID file is always
\* created.
Branch_NoInitTest(exists, init_flag) ==
  IF ~exists THEN "create" ELSE "verify"

\* Branch with --init tested before the existence of the ID file.
Branch_InitFirst(exists, init_flag) ==
  IF init_flag THEN "create" ELSE IF exists THEN "verify" ELSE "skip"

\* check_repos, lines 204-213: what is done with a folder whose ID file
\* exists or not: "skip" it, "create" the ID file, or "verify" the IDs.
Branch(exists, init_flag) ==
  IF ~exists THEN (IF ~init_flag THEN "skip" ELSE "create") ELSE "verify"

\* Verify where compare_ids is not asked: any difference of length counts as
\* growth.
Verify_LengthOnly(f, g, force) ==
  LET Result(st, w, x, e) ==
        [status |-> st, write_file |-> w, failed |-> x, errors |-> e]
  IN
  IF g.ret = "False" THEN Result("ProviderFailure", FALSE, FALSE, <<>>)
  ELSE IF f = <<>> THEN Result("Empty", FALSE, FALSE, <<>>)
  ELSE IF force THEN Result("Forced", TRUE, FALSE, <<>>)
  ELSE IF Len(g.info) # Len(f)
       THEN Result("Extended", TRUE, FALSE, <<>>)
       ELSE Result("Match", FALSE, FALSE, <<>>)

\* check_repos, lines 213-226, once read_id_file has returned True with the
\* lines f: g is what get_borg_id_info returned ("True" or "False").
\* failed stands for the assignment ret_code = 1.
Verify(f, g, force) ==
  LET c == compare_ids(f, g.info)
      Result(st, w, x, e) ==
        [status |-> st, write_file |-> w, failed |-> x, errors |-> e]
  IN
  IF g.ret = "False" THEN Result("ProviderFailure", FALSE, FALSE, <<>>)
  ELSE IF f = <<>> THEN Result("Empty", FALSE, FALSE, <<>>)
  ELSE IF force THEN Result("Forced", TRUE, FALSE, <<>>)
  ELSE IF c.ret
       THEN (IF Len(g.info) # Len(f)
             THEN Result("Extended", TRUE, FALSE, <<>>)
             ELSE Result("Match", FALSE, FALSE, <<>>))
       ELSE Result("Diverged", FALSE, TRUE, c.errs)

\* RetCode with ret_code assigned in every iteration.
RetCode_Reset(old, failed) == IF failed THEN 1 ELSE 0

\* check_repos, lines 189 and 225: ret_code after an iteration.
RetCode(old, failed) == IF failed THEN 1 ELSE old

\* ------------------------------------------------------------ the runs
\* check_repos, lines 191-194: every folder in the order os.listdir gives
\* them, or the one folder named by --repo.
FolderLists(ds) ==
  {<<p[1], p[2]>> : p \in {q \in ds \X ds : q[1] # q[2]}}
  \cup {<<x>> : x \in ds}

NoOutcome == [status |-> "none", errors |-> <<>>]
Outcome(st) == [status |-> st, errors |-> <<>>]

NoPrev ==
  [force_update |-> FALSE, init |-> FALSE, dryrun |-> FALSE,
   folders |-> <<>>, borg |-> [r \in Repos |-> NotCalled],
   outcome |-> [r \in Repos |-> NoOutcome], fault |-> FALSE, pc |-> "none",
   exit_code |-> -1, touched |-> {},
   idFile |-> [r \in Repos |-> NoFile], oldFile |-> [r \in Repos |-> NoFile]]

\* BorgIdVerify.__init__, process_commandline and the head of check_repos:
\* the state of a process that is about to enter the for loop.
Begin(f, i, d, fl) ==
  /\ force_update' = f
  /\ init' = i
  /\ dryrun' = d
  /\ folders' = fl
  /\ file_id_info' = <<>>
  /\ borg_id_info' = <<>>
  /\ idx' = 0
  /\ ret_code' = 0
  /\ pc' = "loop"
  /\ exit_code' = -1
  /\ borg' = [r \in Repos |-> NotCalled]
  /\ outcome' = [r \in Repos |-> NoOutcome]
  /\ fault' = FALSE
  /\ touched' = {}

\* The state of a first run about to enter the for loop: the folders ds, the
\* ID files ids and the .old files olds on disk.
InitWith(ds, ids, olds) ==
  /\ dirs = ds
  /\ idFile \in ids
  /\ oldFile \in olds
  /\ force_update \in BOOLEAN
  /\ init \in BOOLEAN
  /\ dryrun \in BOOLEAN
  /\ folders \in FolderLists(ds)
  /\ file_id_info = <<>>
  /\ borg_id_info = <<>>
  /\ idx = 0
  /\ ret_code = 0
  /\ pc = "loop"
  /\ exit_code = -1
  /\ borg = [r \in Repos |-> NotCalled]
  /\ outcome = [r \in Repos |-> NoOutcome]
  /\ fault = FALSE
  /\ touched = {}
  /\ idFile0 = idFile
  /\ oldFile0 = oldFile
  /\ prev = NoPrev

\* Only r gets one of the files fs.
OnlyFor(r, fs) == {[q \in Repos |-> IF q = r THEN f ELSE NoFile] : f \in fs}

\* A base path with the one folder r1: any ID file, with or without an .old.
Init ==
  InitWith({"r1"}, OnlyFor("r1", Files),
           OnlyFor("r1", {NoFile, File(<<"b">>)}))

\* A base path with two folders and short ID files.
InitRepos ==
  InitWith(Repos, [Repos -> {NoFile, File(<<>>), File(<<"a">>)}],
           [Repos -> {NoFile, File(<<"b">>)}])

\* The folder of the current iteration of the for loop.
folder == folders[idx + 1]

InLoop == pc = "loop" /\ idx < Len(folders)

\* The end of an iteration: on to the next folder.
Continue == idx' = idx + 1 /\ pc' = "loop"

\* An exception nothing catches: traceback, exit status 1.
Raise == pc' = "crashed" /\ exit_code' = 1 /\ idx' = idx

\* AfterClassify without the rotation: the ID file is overwritten in place.
AfterClassify_NoRotation(write_file) ==
  IF write_file /\ ~dryrun
  THEN idx' = idx /\ pc' = "write"
  ELSE Continue

\* AfterClassify with the test of --dryrun forgotten.
AfterClassify_NoDryrunTest(write_file) ==
  IF write_file
  THEN /\ idx' = idx
       /\ pc' = IF idFile[folder].exists
                THEN (IF oldFile[folder].exists THEN "remove" ELSE "rename")
                ELSE "write"
  ELSE Continue

\* check_repos, lines 228-239: what follows the classification.
AfterClassify(write_file) ==
  IF write_file /\ ~dryrun
  THEN /\ idx' = idx
       /\ pc' = IF idFile[folder].exists
                THEN (IF oldFile[folder].exists THEN "remove" ELSE "rename")
                ELSE "write"
  ELSE Continue

\* check_repos, lines 204-208: no ID file and no --init.
MissingNoInit ==
  /\ InLoop
  /\ Branch(idFile[folder].exists, init) = "skip"
  /\ outcome' = [outcome EXCEPT ![folder] = Outcome("MissingBaseline")]
  /\ Continue
  /\ UNCHANGED <<touched, idFile, oldFile, force_update, init, dryrun, file_id_info,
                 borg_id_info, folders, ret_code, exit_code, borg, fault,
                 dirs, idFile0, oldFile0, prev>>

\* check_repos, lines 209-212 and 228-231: no ID file, --init given.  The
\* return value of get_borg_id_info is not looked at.
MissingInit ==
  /\ InLoop
  /\ Branch(idFile[folder].exists, init) = "create"
  /\ \E res \in BorgResults :
       LET g == get_borg_id_info(res) IN
       /\ borg' = [borg EXCEPT ![folder] = res]
       /\ borg_id_info' = g.info
       /\ IF g.ret = "TypeError"
          THEN /\ Raise
               /\ outcome' = [outcome EXCEPT ![folder] = Outcome("Raised")]
          ELSE /\ outcome' = [outcome EXCEPT ![folder] = Outcome("Init")]
               /\ AfterClassify(TRUE)
               /\ UNCHANGED exit_code
  /\ UNCHANGED <<touched, idFile, oldFile, force_update, init, dryrun, file_id_info,
                 folders, ret_code, fault, dirs, idFile0, oldFile0, prev>>

\* check_repos, line 213 with read_id_file failing (IOError): the elif is
\* false, borg is not called, nothing is written.
ReadFailed ==
  /\ InLoop
  /\ Branch(idFile[folder].exists, init) = "verify"
  /\ file_id_info' = <<>>
  /\ fault' = TRUE
  /\ outcome' = [outcome EXCEPT ![folder] = Outcome("StoreFailure")]
  /\ Continue
  /\ UNCHANGED <<touched, idFile, oldFile, force_update, init, dryrun, borg_id_info,
                 folders, ret_code, exit_code, borg, dirs, idFile0,
                 oldFile0, prev>>

\* check_repos, lines 213-231 with read_id_file succeeding.
Existing ==
  /\ InLoop
  /\ Branch(idFile[folder].exists, init) = "verify"
  /\ file_id_info' = idFile[folder].lines
  /\ \E res \in BorgResults :
       LET g == get_borg_id_info(res)
           v == Verify(file_id_info', g, force_update)
       IN
       /\ borg' = [borg EXCEPT ![folder] = res]
       /\ borg_id_info' = g.info
       /\ IF g.ret = "TypeError"
          THEN /\ Raise
               /\ outcome' = [outcome EXCEPT ![folder] = Outcome("Raised")]
               /\ UNCHANGED ret_code
          ELSE /\ outcome' =
                    [outcome EXCEPT
                       ![folder] = [status |-> v.status, errors |-> v.errors]]
               /\ ret_code' = RetCode(ret_code, v.failed)
               /\ AfterClassify(v.write_file)
               /\ UNCHANGED exit_code
  /\ UNCHANGED <<touched, idFile, oldFile, force_update, init, dryrun, folders, fault,
                 dirs, idFile0, oldFile0, prev>>

\* check_repos, lines 234-235: os.remove of the previous .old file.  An
\* OSError is not caught.
RotateRemove ==
  /\ pc = "remove"
  /\ \/ /\ oldFile' = [oldFile EXCEPT ![folder] = NoFile]
        /\ touched' = touched \cup {folder}
        /\ pc' = "rename"
        /\ UNCHANGED <<exit_code, fault>>
     \/ /\ pc' = "crashed"
        /\ exit_code' = 1
        /\ fault' = TRUE
        /\ UNCHANGED <<oldFile, touched>>
  /\ UNCHANGED <<idFile, force_update, init, dryrun, file_id_info,
                 borg_id_info, folders, idx, ret_code, borg, outcome,
                 dirs, idFile0, oldFile0, prev>>

\* check_repos, line 236: os.rename of the ID file to the .old path.  An
\* OSError is not caught.
RotateRename ==
  /\ pc = "rename"
  /\ \/ /\ oldFile' = [oldFile EXCEPT ![folder] = idFile[folder]]
        /\ idFile' = [idFile EXCEPT ![folder] = NoFile]
        /\ touched' = touched \cup {folder}
        /\ pc' = "write"
        /\ UNCHANGED <<exit_code, fault>>
     \/ /\ pc' = "crashed"
        /\ exit_code' = 1
        /\ fault' = TRUE
        /\ UNCHANGED <<idFile, oldFile, touched>>
  /\ UNCHANGED <<force_update, init, dryrun, file_id_info, borg_id_info,
                 folders, idx, ret_code, borg, outcome, idFile0, oldFile0,
                 dirs, prev>>

\* write_id_file as called on line 239: k = Len(self._borg_id_info) is the
\* complete write, k = -1 an IOError of open, another k an IOError after k
\* lines.  IOError is caught and the return value is not looked at.
write_id_file ==
  /\ pc = "write"
  /\ \E k \in (-1)..Len(borg_id_info) :
       /\ idFile' = IF k = -1 THEN idFile
                    ELSE [idFile EXCEPT
                            ![folder] = File(SubSeq(borg_id_info, 1, k))]
       /\ touched' = IF k = -1 THEN touched ELSE touched \cup {folder}
       /\ fault' = (fault \/ k < Len(borg_id_info))
  /\ Continue
  /\ UNCHANGED <<oldFile, force_update, init, dryrun, file_id_info,
                 borg_id_info, folders, ret_code, exit_code, borg, outcome,
                 dirs, idFile0, oldFile0, prev>>

\* check_repos, line 243: sys.exit(ret_code) after the last folder.
Exit ==
  /\ pc = "loop"
  /\ idx = Len(folders)
  /\ pc' = "exited"
  /\ exit_code' = ret_code
  /\ UNCHANGED <<touched, idFile, oldFile, force_update, init, dryrun, file_id_info,
                 borg_id_info, folders, idx, ret_code, borg, outcome, fault,
                 dirs, idFile0, oldFile0, prev>>

Ended == pc \in {"exited", "crashed"}

\* main: the program is started again on the same base path.
StartRun ==
  /\ Ended
  /\ \E f \in BOOLEAN, i \in BOOLEAN, d \in BOOLEAN, fl \in FolderLists(dirs) :
       Begin(f, i, d, fl)
  /\ idFile0' = idFile
  /\ oldFile0' = oldFile
  /\ prev' = [force_update |-> force_update, init |-> init,
              dryrun |-> dryrun, folders |-> folders, borg |-> borg,
              outcome |-> outcome, fault |-> fault, pc |-> pc,
              exit_code |-> exit_code, touched |-> touched,
              idFile |-> idFile, oldFile |-> oldFile]
  /\ UNCHANGED <<idFile, oldFile, dirs>>

Next ==
  \/ MissingNoInit
  \/ MissingInit
  \/ ReadFailed
  \/ Existing
  \/ RotateRemove
  \/ RotateRename
  \/ write_id_file
  \/ Exit
  \/ StartRun

Spec == Init /\ [][Next]_vars

\* One run.
NextRun ==
  \/ MissingNoInit
  \/ MissingInit
  \/ ReadFailed
  \/ Existing
  \/ RotateRemove
  \/ RotateRename
  \/ write_id_file
  \/ Exit

SpecRepos == InitRepos /\ [][NextRun]_vars

\* check_repos, lines 191-196: os.listdir gives the folders in arbitrary
\* order.  The base path, with the files it had before the run, is checked
\* once more with the same flags and the two folders in the other order.
OtherOrder ==
  /\ Ended
  /\ prev.pc = "none"
  /\ Len(folders) = 2
  /\ Begin(force_update, init, dryrun, <<folders[2], folders[1]>>)
  /\ idFile' = idFile0
  /\ oldFile' = oldFile0
  /\ prev' = [force_update |-> force_update, init |-> init,
              dryrun |-> dryrun, folders |-> folders, borg |-> borg,
              outcome |-> outcome, fault |-> fault, pc |-> pc,
              exit_code |-> exit_code, touched |-> touched,
              idFile |-> idFile, oldFile |-> oldFile]
  /\ UNCHANGED <<dirs, idFile0, oldFile0>>

\* One run, and the same run in the other order.
NextOrders ==
  \/ MissingNoInit
  \/ MissingInit
  \/ ReadFailed
  \/ Existing
  \/ RotateRemove
  \/ RotateRename
  \/ write_id_file
  \/ Exit
  \/ OtherOrder

SpecOrders == InitRepos /\ [][NextOrders]_vars

\* compare_ids and the classification of lines 214-231 as functions of their
\* inputs: a process that stands on line 213 after read_id_file and
\* get_borg_id_info have returned True, with any lines in _file_id_info and
\* in _borg_id_info.
InitCompare ==
  /\ dirs = {"r1"}
  /\ folders = <<"r1">>
  /\ file_id_info \in Listings
  /\ borg_id_info \in Listings
  /\ force_update \in BOOLEAN
  /\ init = FALSE
  /\ dryrun = FALSE
  /\ idFile = [r \in Repos |-> IF r = "r1" THEN File(file_id_info) ELSE NoFile]
  /\ oldFile = [r \in Repos |-> NoFile]
  /\ idx = 0
  /\ ret_code = 0
  /\ pc = "compare"
  /\ exit_code = -1
  /\ borg = [r \in Repos |-> NotCalled]
  /\ outcome = [r \in Repos |-> NoOutcome]
  /\ fault = FALSE
  /\ touched = {}
  /\ idFile0 = idFile
  /\ oldFile0 = oldFile
  /\ prev = NoPrev

\* check_repos, lines 213-231, from the test of self._file_id_info on.
Classify ==
  /\ pc = "compare"
  /\ LET v == Verify(file_id_info, [ret |-> "True", info |-> borg_id_info],
                     force_update)
     IN
     /\ outcome' = [outcome EXCEPT
                      ![folder] = [status |-> v.status, errors |-> v.errors]]
     /\ ret_code' = RetCode(ret_code, v.failed)
     /\ AfterClassify(v.write_file)
  /\ UNCHANGED <<touched, idFile, oldFile, force_update, init, dryrun,
                 file_id_info, borg_id_info, folders, exit_code, borg, fault,
                 dirs, idFile0, oldFile0, prev>>

SpecCompare == InitCompare /\ [][Classify]_vars

\* ------------------------------------------------------------ the claims
\* r has been classified in this run.
Processed(r) == outcome[r].status # "none"
\* "borg list" ran for r in this run and returned code 0; Live(r) is its
\* output, the live listing.
Fetched(r) == borg[r].called /\ borg[r].rc = 0
Live(r) == borg[r].out
\* "borg list" ran for r in this run and failed.
ProviderFailed(r) == borg[r].called /\ borg[r].rc # 0
\* The baseline of r when this run started.
HadBaseline(r) == idFile0[r].exists
Baseline(r) == idFile0[r].lines
\* This run has not created, deleted, renamed or modified a file of r.
Untouched(r) ==
  r \notin touched /\ idFile[r] = idFile0[r] /\ oldFile[r] = oldFile0[r]
\* The smallest position (1-based) at which baseline and listing differ.
FirstDifference(r) ==
  CHOOSE i \in 1..Len(Baseline(r)) :
    /\ i <= Len(Live(r)) /\ Baseline(r)[i] # Live(r)[i]
    /\ \A j \in 1..(i - 1) : Baseline(r)[j] = Live(r)[j]
Differs(r) ==
  \E i \in 1..Len(Baseline(r)) :
    i <= Len(Live(r)) /\ Baseline(r)[i] # Live(r)[i]

\* C1: when the baseline is a non-empty strict prefix of the live listing
\* and neither force nor dryrun is set, the repository is classified
\* Extended and at the end of the run the ID file holds exactly the live
\* listing and the .old file exactly the former baseline (no I/O failure).
C1_ExtendedRewritesBaseline ==
  \A r \in Repos :
    ( /\ Ended /\ ~fault /\ ~force_update /\ ~dryrun
      /\ HadBaseline(r) /\ Fetched(r)
      /\ Baseline(r) # <<>>
      /\ IsStrictPrefix(Baseline(r), Live(r)) )
    => /\ outcome[r].status = "Extended"
       /\ idFile[r] = File(Live(r))
       /\ oldFile[r] = idFile0[r]

\* C2: when baseline and live listing differ at some position of the
\* baseline and force is not set, the repository is classified Diverged, the
\* first error reported is at the smallest such position, and no file of the
\* repository is touched, whatever init and dryrun are.
C2_DivergedReportedNotWritten ==
  \A r \in Repos :
    ( /\ Ended /\ ~force_update
      /\ HadBaseline(r) /\ Fetched(r)
      /\ Differs(r) )
    => /\ outcome[r].status = "Diverged"
       /\ outcome[r].errors # <<>>
       /\ outcome[r].errors[1] = FirstDifference(r)
       /\ Untouched(r)

\* C3: when the baseline is identical to the live listing and force is not
\* set, the repository is classified Match (for an empty baseline: silently
\* passed over) and none of its files is touched, with or without dryrun.
C3_MatchLeavesFiles ==
  \A r \in Repos :
    ( /\ Ended /\ ~force_update
      /\ HadBaseline(r) /\ Fetched(r)
      /\ Baseline(r) = Live(r) )
    => /\ outcome[r].status \in {"Match", "Empty"}
       /\ Untouched(r)

\* C4: with force set and dryrun unset, whenever a baseline exists and borg
\* returns a listing, the ID file holds exactly that listing at the end of
\* the run (no I/O failure).
C4_ForceAlwaysWrites ==
  \A r \in Repos :
    ( /\ Ended /\ ~fault /\ force_update /\ ~dryrun
      /\ HadBaseline(r) /\ Fetched(r) )
    => idFile[r] = File(Live(r))

\* C5: a run with dryrun set never creates, deletes, renames or modifies an
\* ID file or an .old file, at any point of the run.
C5_DryrunTouchesNothing ==
  dryrun => touched = {} /\ idFile = idFile0 /\ oldFile = oldFile0

\* C5 witness: a finished dryrun run over two folders in which a rewrite was
\* decided and suppressed.
C5_Witness ==
  /\ pc = "exited" /\ dryrun /\ Len(folders) = 2
  /\ \E r \in Repos : outcome[r].status \in {"Init", "Forced"}
  /\ touched = {}

\* r was classified in the previous run and in this one, both runs had the
\* same flags and got the same answer from "borg list", and no I/O
\* operation failed in either.
Repeated(r) ==
  /\ Ended /\ prev.pc # "none"
  /\ ~fault /\ ~prev.fault
  /\ prev.force_update = force_update
  /\ prev.init = init
  /\ prev.dryrun = dryrun
  /\ prev.outcome[r].status # "none" /\ Processed(r)
  /\ prev.borg[r] = borg[r]

C7_FailureExitStatus ==
  ( /\ Ended
    /\ \/ fault
       \/ \E r \in Repos :
            ProviderFailed(r) \/ outcome[r].status = "StoreFailure" )
  => exit_code = 1

\* The outcomes that C8 counts as success.
Passed(r) ==
  /\ outcome[r].status \in
       {"none", "Match", "Empty", "Extended", "Init", "Forced",
        "MissingBaseline"}
  /\ ~ProviderFailed(r)

\* C8: once a repository is classified Diverged, ret_code is 1 for the rest
\* of the run and the exit status is 1, wherever the repository sits in the
\* sequence; a run in which every repository is Match, Extended or
\* MissingBaseline (and no I/O operation fails) exits with 0.
C8_ExitCodeAggregate ==
  /\ (\E r \in Repos : outcome[r].status = "Diverged")
       => ret_code = 1 /\ (Ended => exit_code = 1)
  /\ (Ended /\ ~fault /\ \A r \in Repos : Passed(r)) => exit_code = 0

\* C8 witness: the first of two folders diverged, the second did not, and
\* the run ended with exit status 1.
C8_Witness ==
  /\ pc = "exited" /\ Len(folders) = 2
  /\ outcome[folders[1]].status = "Diverged"
  /\ outcome[folders[2]].status \in {"MissingBaseline", "Empty", "Forced"}
  /\ exit_code = 1

\* C9: the iteration for a folder without ID file, --init not given, does
\* not call borg, leaves every ID and .old file alone, leaves ret_code
\* alone, and hands over to the next folder.
C9_MissingBaselineSkipped ==
  [][ (InLoop /\ ~idFile[folder].exists /\ ~init)
      => /\ outcome'[folder].status = "MissingBaseline"
         /\ borg' = borg
         /\ idFile' = idFile /\ oldFile' = oldFile /\ touched' = touched
         /\ ret_code' = ret_code /\ exit_code' = exit_code
         /\ pc' = "loop" /\ idx' = idx + 1 ]_vars

\* C9 witness: the first of two folders had no ID file and was skipped
\* without a call of borg; the second folder was then processed.
C9_Witness ==
  /\ Len(folders) = 2 /\ ~init
  /\ outcome[folders[1]].status = "MissingBaseline"
  /\ ~borg[folders[1]].called
  /\ ~idFile[folders[1]].exists
  /\ Processed(folders[2])

\* C10: the process ends only after every folder of the list has been
\* attempted.
C10_EveryFolderAttempted ==
  exit_code # -1
  => /\ idx = Len(folders)
     /\ \A i \in 1..Len(folders) : Processed(folders[i])

\* The previous run had --dryrun, this one has the same --force and --init
\* without --dryrun; both classified r, with the same answer from "borg
\* list", and no I/O operation failed in either.
DryrunThenReal(r) ==
  /\ Ended /\ prev.pc # "none"
  /\ ~fault /\ ~prev.fault
  /\ prev.dryrun /\ ~dryrun
  /\ prev.force_update = force_update
  /\ prev.init = init
  /\ prev.outcome[r].status # "none" /\ Processed(r)
  /\ prev.borg[r] = borg[r]

\* C11: a dryrun run reports the outcome and the exit code of the same run
\* without dryrun, and it leaves the files as it found them, so that the run
\* without dryrun that follows it ends as it would have ended alone.
C11_DryrunSameClassification ==
  \A r \in Repos :
    DryrunThenReal(r)
    => /\ prev.outcome[r] = outcome[r]
       /\ prev.exit_code = exit_code
       /\ prev.touched = {}

\* C11 witness: the dryrun run suppressed a rewrite that the following run
\* without dryrun then performed, both reporting the same outcome.
C11_Witness ==
  \E r \in Repos :
    /\ DryrunThenReal(r)
    /\ outcome[r].status \in {"Init", "Forced"}
    /\ prev.outcome[r] = outcome[r]
    /\ r \in touched
    /\ idFile[r] = File(Live(r))

\* C12: when "borg list" fails for a repository, the run creates and
\* modifies no file of that repository, whatever the flags, also when there
\* is no ID file and --init is given.
C12_ProviderFailureWritesNothing ==
  \A r \in Repos : ProviderFailed(r) => Untouched(r)

\* C13: at every point of a run, the baseline a repository had when the run
\* started is present, complete and unmodified, at the ID path or at the
\* .old path; and the ID path gets new content only when no file is there
\* (the old baseline having been renamed to the .old path before).
C13_OldBaselineKept ==
  /\ [](\A r \in Repos :
          HadBaseline(r)
          => idFile[r] = idFile0[r] \/ oldFile[r] = idFile0[r])
  /\ [][\A r \in Repos :
          (idFile'[r] # idFile[r] /\ idFile'[r].exists)
          => /\ ~idFile[r].exists
             /\ HadBaseline(r) => oldFile[r] = idFile0[r]]_vars

\* C13 witness: in the middle of an update, after the previous .old file was
\* deleted and the baseline renamed, before the new ID file is written.
C13_Witness ==
  /\ pc = "write"
  /\ HadBaseline(folder) /\ Baseline(folder) # <<>>
  /\ oldFile0[folder].exists /\ oldFile0[folder] # idFile0[folder]
  /\ ~idFile[folder].exists
  /\ oldFile[folder] = idFile0[folder]

\* C14 is about an ID file left half-written by a failed write.  The listing
\* that write_id_file writes is always empty (FilterNotice, line 137), so a
\* write has no middle: the file is either not opened or complete.
NothingToWrite == borg_id_info = <<>>

\* The state C14 starts from: a write that stopped after some lines but
\* before the last one.
HalfWritten ==
  \E r \in Repos :
    /\ r \in touched /\ fault
    /\ Fetched(r) /\ idFile[r].exists
    /\ IsStrictPrefix(idFile[r].lines, borg_id_info)

\* C15: in a run without --force, the ID file a repository had when the run
\* started is renamed, replaced or removed only if its lines are a strict
\* prefix of the listing borg gave in that run; so from one run without
\* --force to the next the lines of an ID file only grow at the end.
C15_ReplacedOnlyWhenStrictPrefix ==
  \A r \in Repos :
    (~force_update /\ HadBaseline(r) /\ idFile[r] # idFile0[r])
    => /\ Fetched(r)
       /\ IsStrictPrefix(Baseline(r), Live(r))
       /\ idFile[r].exists => IsStrictPrefix(Baseline(r), idFile[r].lines)

\* C15 witness: a second run without --force in a row found an ID file
\* whose lines are no strict prefix of borg's listing, and left it alone.
C15_Witness ==
  \E r \in Repos :
    /\ Ended /\ ~force_update /\ ~dryrun
    /\ prev.pc # "none" /\ ~prev.force_update
    /\ HadBaseline(r) /\ Baseline(r) # <<>>
    /\ Fetched(r) /\ ~IsStrictPrefix(Baseline(r), Live(r))
    /\ outcome[r].status = "Diverged"
    /\ Untouched(r) /\ idFile[r] = idFile0[r]

\* C16: a repository whose ID file exists and has no line, and for which
\* borg gave a listing, is passed over as "nothing to compare" whatever the
\* listing and the flags, --force included: the run goes on, no file of the
\* repository is touched, the ID file is still empty and the exit status of
\* the run (one repository) is 0.
C16_EmptyBaselineIsMatch ==
  \A r \in Repos :
    (Ended /\ Processed(r) /\ HadBaseline(r) /\ Baseline(r) = <<>>
       /\ Fetched(r) /\ ~fault)
    => /\ outcome[r].status = "Empty"
       /\ Untouched(r)
       /\ idFile[r] = File(<<>>)
       /\ pc = "exited" /\ exit_code = 0

\* Both orders have ended without I/O failure, and a repository that was
\* asked for its listing in both gave the same one.
BothOrders ==
  /\ Ended /\ prev.pc # "none"
  /\ ~fault /\ ~prev.fault
  /\ \A r \in Repos :
       (borg[r].called /\ prev.borg[r].called) => borg[r] = prev.borg[r]

\* C17: the outcome for a repository depends only on its own ID file and
\* listing, and the files of every repository and the exit status at the
\* end of the run are the same in whichever order the folders are walked.
C17_OrderIndependent ==
  BothOrders
  => /\ \A r \in Repos :
          (Processed(r) /\ prev.outcome[r].status # "none")
          => outcome[r] = prev.outcome[r]
     /\ idFile = prev.idFile
     /\ oldFile = prev.oldFile
     /\ exit_code = prev.exit_code

\* The positions (1-based, the line numbers compare_ids prints) at which both
\* lists have a line and the lines differ.
Mismatches(f, b) == {i \in 1..Len(f) : i <= Len(b) /\ f[i] # b[i]}

\* The errors compare_ids has to print for f and b: every mismatch, and the
\* first file line that has no borg line.
Expected(f, b) ==
  Mismatches(f, b) \cup (IF Len(f) > Len(b) THEN {Len(b) + 1} ELSE {})

\* The classification has been made, without --force, of a file with lines.
Compared ==
  pc # "compare" /\ ~force_update /\ file_id_info # <<>>

Created(r) ==
  /\ Ended /\ ~fault
  /\ ~HadBaseline(r) /\ init /\ ~dryrun
  /\ Fetched(r)

\* The same about the previous run.  A run that ended in r with the
\* exception of line 137 has touched no file of r, so r had no ID file when
\* that run started if it has none now.
PrevCreated(r) ==
  /\ prev.pc # "none" /\ ~prev.fault
  /\ prev.init /\ ~prev.dryrun
  /\ prev.borg[r].called /\ prev.borg[r].rc = 0
  /\ \/ prev.outcome[r].status = "Init"
     \/ prev.outcome[r].status = "Raised" /\ ~HadBaseline(r)

\* C19: a run with --init and without --dryrun on a repository without ID
\* file, for which borg gives a listing, leaves an ID file with exactly the
\* lines of the listing and leaves the .old path as it was; the run without
\* flags that follows, borg giving the same listing, finds nothing to report
\* for the repository and touches none of its files.
C19_InitCreatesBaseline ==
  \A r \in Repos :
    /\ Created(r)
       => /\ idFile[r] = File(Live(r))
          /\ oldFile[r] = oldFile0[r]
    /\ (PrevCreated(r) /\ Ended /\ ~fault /\ Processed(r)
          /\ ~force_update /\ ~init /\ ~dryrun
          /\ borg[r] = prev.borg[r])
       => /\ outcome[r].status \in {"Match", "Empty"}
          /\ Untouched(r)

====
